---- MODULE Spec2Model ----
(***************************************************************************)
(* A model of the hepmc2 crate: the streaming Reader (src/src/reader.rs)   *)
(* and the Writer (src/src/writer.rs) over the Event data model            *)
(* (src/src/event.rs), built with the default `sync` feature.              *)
(*                                                                         *)
(* A text line is a record [toks, trail, cut]: its whitespace-separated    *)
(* tokens, whether blanks follow the last token before the newline, and    *)
(* whether the line is an unterminated fragment left by a failed write.    *)
(* Numbers are kept as text on a line and as values in an Event, so that   *)
(* parsing and formatting are real conversions: an f64 value is modelled   *)
(* by the integer ten times its value (2147483648.0, which is too large    *)
(* for that, by 2000000000).                                               *)
(***************************************************************************)
EXTENDS Integers, Sequences, FiniteSets, TLC

VARIABLES
    input,      \* Reader.stream: the lines of the input, fixed once opened
    pos,        \* Reader.stream: how many lines have been read from it
    line,       \* Reader.line: the line buffer (NoLine when empty)
    line_nr,    \* Reader.line_nr
    rstate,     \* the Reader as its caller sees it: "ready" or "panicked"
    last,       \* the value returned by the latest pull of the Reader
    yielded,    \* the events of the Ok results so far, in pull order
    first,      \* the position in input of the E line of the latest pull
    pulls,      \* the number of pulls made so far, modulo 2
    w,          \* the Writer: [stream, finished], with the log and the I/O counters
    wstate,     \* the Writer's life: "none", "live", "failed", "finished", ...
    wres,       \* what the latest Writer operation returned: "ok", "err", "-"
    calls,      \* the write calls so far: the event given, what the stream did,
                \* and the length of the stream at the call
    hdr,        \* the header the constructor was given
    inner,      \* the stream into_inner returned
    phase       \* which part of the program runs: "read", "write", "reread"

rvars == <<input, pos, line, line_nr, rstate, last, yielded, first, pulls>>
wvars == <<w, wstate, wres, calls, hdr, inner>>
vars == <<input, pos, line, line_nr, rstate, last, yielded, first, pulls,
          w, wstate, wres, calls, hdr, inner, phase>>

(***************************************************************************)
(* Bounds of the model.                                                    *)
(***************************************************************************)
MaxLines == 4
MaxWrites == 2

(***************************************************************************)
(* Results.                                                                *)
(***************************************************************************)
Ok(v) == [ok |-> TRUE, val |-> v]
Err(e) == [ok |-> FALSE, err |-> e]

(***************************************************************************)
(* Number tokens.  IntTable holds the tokens of the shape -?[0-9]+ that    *)
(* fit an i32, with their values; IntOverflow those that do not fit.       *)
(* FloatTable holds the tokens recognize_float accepts, with ten times     *)
(* their f64 value.                                                        *)
(***************************************************************************)
IntTable ==
    ("0" :> 0) @@ ("1" :> 1) @@ ("2" :> 2) @@ ("3" :> 3) @@ ("4" :> 4) @@
    ("-1" :> -1) @@ ("-2" :> -2) @@ ("01" :> 1)

\* the digits of usize::MAX where usize has 64 bits, and the number that
\* stands for its value here
UsizeMaxDigits == "18446744073709551615"
UsizeMax == 2000000000

IntOverflow == {"2147483648", UsizeMaxDigits}

FloatTable ==
    ("0" :> 0) @@ ("1" :> 10) @@ ("2" :> 20) @@ ("3" :> 30) @@ ("4" :> 40) @@
    ("-1" :> -10) @@ ("-2" :> -20) @@ ("01" :> 10) @@
    ("2147483648" :> 2000000000) @@
    ("0.0" :> 0) @@ ("1.0" :> 10) @@ ("2.0" :> 20) @@ ("3.0" :> 30) @@
    ("4.0" :> 40) @@ ("-1.0" :> -10) @@ ("-2.0" :> -20) @@
    ("2147483648.0" :> 2000000000) @@
    ("1.5" :> 15) @@ ("1.50" :> 15) @@ ("0.2" :> 2) @@
    ("-1.0000000000000000e+00" :> -10)

\* nom's `int`: an optional minus sign and one or more digits
int(t) == t \in DOMAIN IntTable \cup IntOverflow

\* nom's `recognize_float` and `double`
recognize_float(t) == t \in DOMAIN FloatTable

\* str::parse::<i32>
parse_i32(t) == IF t \in DOMAIN IntTable THEN Ok(IntTable[t]) ELSE Err("ConvertInt")

\* str::parse::<usize>: no sign is accepted
parse_usize(t) ==
    IF t \in DOMAIN IntTable /\ IntTable[t] >= 0 THEN Ok(IntTable[t])
    ELSE IF t = UsizeMaxDigits THEN Ok(UsizeMax)
    ELSE Err("ConvertInt")

\* Vec::with_capacity: it panics with "capacity overflow" when the bytes asked
\* for exceed isize::MAX
with_capacity(n) == IF n = UsizeMax THEN Err("PANIC") ELSE Ok(n)

\* str::parse::<f64> of a token recognize_float accepted
parse_f64(t) == FloatTable[t]

\* Display of an i32 or usize
IntStr(n) ==
    CASE n = 0 -> "0" [] n = 1 -> "1" [] n = 2 -> "2" [] n = 3 -> "3"
      [] n = 4 -> "4" [] n = 5 -> "5" [] n = 6 -> "6"
      [] n = -1 -> "-1" [] n = -2 -> "-2"

\* ryu::Buffer::format: the shortest text that parses back to the same f64
ryu_format(v) ==
    CASE v = 0 -> "0.0" [] v = 10 -> "1.0" [] v = 20 -> "2.0" [] v = 30 -> "3.0"
      [] v = 40 -> "4.0" [] v = -10 -> "-1.0" [] v = -20 -> "-2.0"
      [] v = 15 -> "1.5" [] v = 2 -> "0.2"
      [] v = 2000000000 -> "2147483648.0"

\* Display of an f64 (the `{}` the vertex weights are written with)
DisplayF64(v) ==
    CASE v = 0 -> "0" [] v = 10 -> "1" [] v = 20 -> "2" [] v = 30 -> "3"
      [] v = 40 -> "4" [] v = -10 -> "-1" [] v = -20 -> "-2"
      [] v = 15 -> "1.5" [] v = 2 -> "0.2"
      [] v = 2000000000 -> "2147483648"

(***************************************************************************)
(* Quoted strings and unit tags.                                           *)
(***************************************************************************)
StringTable == ("\"w\"" :> "w") @@ ("\"\"" :> "") @@ ("\"0\"" :> "0")

\* nom: delimited(char('"'), take_until("\""), char('"'))
string(t) == t \in DOMAIN StringTable

Quote(s) == "\"" \o s \o "\""

EnergyUnit == {"MEV", "GEV"}
LengthUnit == {"MM", "CM"}

\* derive(Debug) of a unit prints the variant's name; a value that is no
\* variant can only be the String parse_units_line stores, printed quoted
DebugUnit(u) == IF u \in EnergyUnit \cup LengthUnit THEN u ELSE Quote(u)

(***************************************************************************)
(* Lines.                                                                  *)
(***************************************************************************)
Ln(toks) == [toks |-> toks, trail |-> FALSE, cut |-> FALSE]
LnTrail(toks) == [toks |-> toks, trail |-> TRUE, cut |-> FALSE]
Fragment(toks) == [toks |-> toks, trail |-> FALSE, cut |-> TRUE]

\* the empty line buffer: String::new(), or the buffer after read_line met the end
NoLine == Fragment(<<>>)

HepMCWords ==
    {"HepMC::Version", "HepMC::IO_GenEvent-START_EVENT_LISTING",
     "HepMC::IO_GenEvent-END_EVENT_LISTING"}

\* str::trim().is_empty()
IsBlank(l) == l.toks = <<>>

\* str::starts_with("HepMC")
StartsWithHepMC(l) == l.toks # <<>> /\ l.toks[1] \in HepMCWords

\* line.as_bytes().first(), for a line read_line returned
FirstByte(l) ==
    IF l.toks = <<>> THEN (IF l.trail THEN " " ELSE "\n")
    ELSE IF l.toks[1] \in HepMCWords THEN "H"
    ELSE IF l.toks[1] \in {"E", "V", "P", "U", "F", "H", "N", "C"} THEN l.toks[1]
    ELSE "?"

(***************************************************************************)
(* The data model (src/src/event.rs).  An Option is a sequence of length   *)
(* at most one; a flow map is a function from its keys.                    *)
(***************************************************************************)
DefaultCrossSection == [cross_section |-> 0, cross_section_error |-> 0]

DefaultPdfInfo ==
    [parton_id |-> <<0, 0>>, x |-> <<0, 0>>, scale |-> 0, xf |-> <<0, 0>>,
     pdf_id |-> <<0, 0>>]

DefaultEnergyUnit == "GEV"
DefaultLengthUnit == "CM"

DefaultEvent ==
    [number |-> 0, mpi |-> 0, scale |-> 0, alpha_qcd |-> 0, alpha_qed |-> 0,
     signal_process_id |-> 0, signal_process_vertex |-> 0,
     random_states |-> <<>>, weights |-> <<>>, weight_names |-> <<>>,
     vertices |-> <<>>, xs |-> DefaultCrossSection, pdf_info |-> DefaultPdfInfo,
     energy_unit |-> DefaultEnergyUnit, length_unit |-> DefaultLengthUnit,
     heavy_ion_info |-> <<>>]

\* FourVector::txyz: component 0 is t
txyz(t, x, y, z) == <<t, x, y, z>>

(***************************************************************************)
(* The grammar layer: a tuple of token parsers matches when every token is *)
(* there and has the shape asked for ("i" int, "f" float, "w" any          *)
(* non-blank text, "s" quoted string); otherwise nom reports an error.     *)
(***************************************************************************)
HasShape(t, k) ==
    CASE k = "i" -> int(t)
      [] k = "f" -> recognize_float(t)
      [] k = "s" -> string(t)
      [] k = "w" -> TRUE

Match(toks, from, kinds) ==
    /\ Len(toks) >= from + Len(kinds) - 1
    /\ \A i \in 1..Len(kinds) : HasShape(toks[from + i - 1], kinds[i])

\* the `?` operator: go on with the value of an Ok, return an Err as it is
Then(res, K(_)) == IF res.ok THEN K(res.val) ELSE res

\* a `let` binding
With(v, K(_)) == K(v)

\* n times preceded(whitespace, int) with parse::<i32> of each
RECURSIVE parse_ints(_, _, _)
parse_ints(toks, from, n) ==
    IF n <= 0 THEN Ok(<<>>)
    ELSE IF ~Match(toks, from, <<"i">>) THEN Err("Parse")
    ELSE Then(parse_i32(toks[from]), LAMBDA v :
         Then(parse_ints(toks, from + 1, n - 1), LAMBDA rest :
         Ok(<<v>> \o rest)))

\* n times preceded(whitespace, double)
RECURSIVE parse_doubles(_, _, _)
parse_doubles(toks, from, n) ==
    IF n <= 0 THEN Ok(<<>>)
    ELSE IF ~Match(toks, from, <<"f">>) THEN Err("Parse")
    ELSE Then(parse_doubles(toks, from + 1, n - 1), LAMBDA rest :
         Ok(<<parse_f64(toks[from])>> \o rest))

\* a count token: matched as an int, then parse::<usize>
parse_count(toks, at) ==
    IF Match(toks, at, <<"i">>) THEN Then(parse_usize(toks[at]), with_capacity)
    ELSE Err("Parse")

\* the i32 fields of a struct literal, converted in order: the first failure
\* is returned
RECURSIVE parse_fields(_, _)
parse_fields(toks, idx) ==
    IF idx = <<>> THEN Ok(<<>>)
    ELSE Then(parse_i32(toks[Head(idx)]), LAMBDA v :
         Then(parse_fields(toks, Tail(idx)), LAMBDA rest :
         Ok(<<v>> \o rest)))

(***************************************************************************)
(* The record parsers (src/src/reader.rs).  Each returns Ok of the event   *)
(* (parse_event_line) or of the event as mutated, or Err of a ParseError.  *)
(***************************************************************************)
parse_event_line(l) ==
    LET t == l.toks IN
    IF ~(Match(t, 1, <<"w", "i", "i", "f", "f", "f", "i", "i", "i", "i", "i", "i">>)
         /\ t[1] = "E")
    THEN Err("Parse")
    ELSE Then(Then(parse_usize(t[12]), with_capacity), LAMBDA nrandom_states :
         Then(parse_ints(t, 13, nrandom_states), LAMBDA random_states :
         Then(parse_count(t, 13 + nrandom_states), LAMBDA nweights :
         Then(parse_doubles(t, 14 + nrandom_states, nweights), LAMBDA weights :
         Then(parse_fields(t, <<2, 3, 7, 8>>), LAMBDA f :
         Then(Then(parse_usize(t[9]), with_capacity), LAMBDA num_vertices :
         Ok([DefaultEvent EXCEPT
                !.number = f[1],
                !.mpi = f[2],
                !.scale = parse_f64(t[4]),
                !.alpha_qcd = parse_f64(t[5]),
                !.alpha_qed = parse_f64(t[6]),
                !.signal_process_id = f[3],
                !.signal_process_vertex = f[4],
                !.random_states = random_states,
                !.weights = weights])))))))

parse_vertex_line(l, event) ==
    LET t == l.toks IN
    IF ~(Match(t, 1, <<"w", "i", "i", "f", "f", "f", "f", "i", "i", "i">>)
         /\ t[1] = "V")
    THEN Err("Parse")
    ELSE Then(Then(parse_usize(t[10]), with_capacity), LAMBDA num_weights :
         Then(parse_doubles(t, 11, num_weights), LAMBDA weights :
         Then(parse_fields(t, <<2, 3>>), LAMBDA f :
         Then(Then(parse_usize(t[9]), with_capacity), LAMBDA num_particles_out :
         Ok([event EXCEPT !.vertices = Append(@,
                [barcode |-> f[1], status |-> f[2],
                 x |-> parse_f64(t[4]), y |-> parse_f64(t[5]),
                 z |-> parse_f64(t[6]), t |-> parse_f64(t[7]),
                 weights |-> weights,
                 particles_in |-> <<>>, particles_out |-> <<>>])])))))

\* the flow pairs of a P line: each index and value is matched and converted
\* in turn, and a later pair replaces an earlier one with the same index
RECURSIVE parse_flows(_, _, _, _)
parse_flows(toks, from, n, flows) ==
    IF n <= 0 THEN Ok(flows)
    ELSE IF ~Match(toks, from, <<"i">>) THEN Err("Parse")
    ELSE Then(parse_i32(toks[from]), LAMBDA flowidx :
         IF ~Match(toks, from + 1, <<"i">>) THEN Err("Parse")
         ELSE Then(parse_i32(toks[from + 1]), LAMBDA flowval :
              parse_flows(toks, from + 2, n - 1, (flowidx :> flowval) @@ flows)))

\* where a particle goes: into the last vertex parsed, by its end_vtx alone
\* a classification that looks the end vertex up among all the vertices
AddParticle_lookup(event, particle) ==
    LET n == Len(event.vertices)
        hit == {k \in 1..n : event.vertices[k].barcode = particle.end_vtx}
    IN
    IF n > 0
    THEN IF hit # {}
         THEN Ok([event EXCEPT
                    !.vertices[CHOOSE k \in hit : TRUE].particles_in = Append(@, particle)])
         ELSE Ok([event EXCEPT !.vertices[n].particles_out = Append(@, particle)])
    ELSE Err("NoVertex")

\* a particle line before any vertex is passed over
AddParticle_drop(event, particle) ==
    LET n == Len(event.vertices) IN
    IF n > 0
    THEN IF particle.end_vtx = event.vertices[n].barcode
         THEN Ok([event EXCEPT !.vertices[n].particles_in = Append(@, particle)])
         ELSE Ok([event EXCEPT !.vertices[n].particles_out = Append(@, particle)])
    ELSE Ok(event)

\* a particle put at the front of its list
AddParticle_front(event, particle) ==
    LET n == Len(event.vertices) IN
    IF n > 0
    THEN IF particle.end_vtx = event.vertices[n].barcode
         THEN Ok([event EXCEPT !.vertices[n].particles_in = <<particle>> \o @])
         ELSE Ok([event EXCEPT !.vertices[n].particles_out = <<particle>> \o @])
    ELSE Err("NoVertex")

\* the tail of parse_particle_line: the particle goes to the last vertex
AddParticle(event, particle) ==
    LET n == Len(event.vertices) IN
    IF n > 0
    THEN IF particle.end_vtx = event.vertices[n].barcode
         THEN Ok([event EXCEPT !.vertices[n].particles_in = Append(@, particle)])
         ELSE Ok([event EXCEPT !.vertices[n].particles_out = Append(@, particle)])
    ELSE Err("NoVertex")

parse_particle_line(l, event) ==
    LET t == l.toks IN
    IF ~(Match(t, 1, <<"w", "i", "i", "f", "f", "f", "f", "f",
                       "i", "f", "f", "i", "i">>)
         /\ t[1] = "P")
    THEN Err("Parse")
    ELSE Then(parse_i32(t[13]), LAMBDA flowsize :
         Then(parse_flows(t, 14, flowsize, <<>>), LAMBDA flows :
         Then(parse_fields(t, <<3, 9, 12>>), LAMBDA f :
         AddParticle(event,
             [id |-> f[1],
              p |-> txyz(parse_f64(t[7]), parse_f64(t[4]),
                         parse_f64(t[5]), parse_f64(t[6])),
              m |-> parse_f64(t[8]),
              status |-> f[2],
              theta |-> parse_f64(t[10]),
              phi |-> parse_f64(t[11]),
              flows |-> flows,
              end_vtx |-> f[3]]))))

parse_units_line(l, event) ==
    LET t == l.toks IN
    IF ~(Match(t, 1, <<"w", "w", "w">>) /\ t[1] = "U")
    THEN Err("Parse")
    ELSE Ok([event EXCEPT !.energy_unit = t[2], !.length_unit = t[3]])

\* opt(int) at token i: the token when it is an int, else nothing
OptInt(t, i) == IF Match(t, i, <<"i">>) THEN <<t[i]>> ELSE <<>>

\* pdf_id.map(|id| id.parse()).transpose()?.unwrap_or(0)
ParseOr0(o) == IF o = <<>> THEN Ok(0) ELSE parse_i32(o[1])

\* After xf1 the tuple goes on with whitespace, opt(int), whitespace,
\* opt(int), whitespace.  space1 takes blanks and tabs only, never the
\* newline, and an opt(int) that matches nothing leaves the next whitespace
\* with nothing to take: the tuple matches only when both ids are there and
\* blanks follow the second one.
parse_pdf_info_line(l, event) ==
    LET t == l.toks
        more(n) == Len(t) > n \/ (Len(t) = n /\ l.trail)
    IN
    IF ~(Match(t, 1, <<"w", "i", "i", "f", "f", "f", "f", "f">>) /\ t[1] = "F"
         /\ more(8)
         /\ OptInt(t, 9) # <<>> /\ more(9)
         /\ OptInt(t, 10) # <<>> /\ more(10))
    THEN Err("Parse")
    ELSE Then(parse_fields(t, <<2, 3>>), LAMBDA f :
         Then(ParseOr0(OptInt(t, 9)), LAMBDA pdf_id0 :
         Then(ParseOr0(OptInt(t, 10)), LAMBDA pdf_id1 :
         Ok([event EXCEPT !.pdf_info =
                [parton_id |-> <<f[1], f[2]>>,
                 x |-> <<parse_f64(t[4]), parse_f64(t[5])>>,
                 scale |-> parse_f64(t[6]),
                 xf |-> <<parse_f64(t[7]), parse_f64(t[8])>>,
                 pdf_id |-> <<pdf_id0, pdf_id1>>]]))))

\* unimplemented!(): the call panics whatever the line holds
parse_heavy_ion_line(l, event) == Err("PANIC")

RECURSIVE parse_names(_, _, _)
parse_names(toks, from, n) ==
    IF n <= 0 THEN Ok(<<>>)
    ELSE IF ~Match(toks, from, <<"s">>) THEN Err("Parse")
    ELSE Then(parse_names(toks, from + 1, n - 1), LAMBDA rest :
         Ok(<<StringTable[toks[from]]>> \o rest))

parse_weight_names_line(l, event) ==
    LET t == l.toks IN
    IF ~(Match(t, 1, <<"w", "i">>) /\ t[1] = "N")
    THEN Err("Parse")
    ELSE Then(Then(parse_usize(t[2]), with_capacity), LAMBDA nnames :
         Then(parse_names(t, 3, nnames), LAMBDA weight_names :
         Ok([event EXCEPT !.weight_names = weight_names])))

parse_xs_info_line(l, event) ==
    LET t == l.toks IN
    IF ~(Match(t, 1, <<"w", "f", "f">>) /\ t[1] = "C")
    THEN Err("Parse")
    ELSE Ok([event EXCEPT !.xs =
                [cross_section |-> parse_f64(t[2]),
                 cross_section_error |-> parse_f64(t[3])]])

(***************************************************************************)
(* The Reader (src/src/reader.rs).  r is [pos, line, line_nr]: the Reader's *)
(* fields, the stream being the lines of inp from pos + 1 on.              *)
(***************************************************************************)
\* Reader::from
NewReader == [pos |-> 0, line |-> NoLine, line_nr |-> 0]

\* a line of bytes that are not UTF-8
InvalidUtf8 == Ln(<<"<ff>">>)

\* read_line returns Err: the bytes of the line are not UTF-8.  The bytes are
\* taken from the stream and the buffer is left as it was, cleared.
ReadFails(inp, r) == r.pos < Len(inp) /\ inp[r.pos + 1] = InvalidUtf8

\* line.clear(), read_line and line_nr += 1 when a line was read
ReadLine(inp, r) ==
    IF r.pos < Len(inp)
    THEN IF ReadFails(inp, r) THEN [r EXCEPT !.pos = r.pos + 1, !.line = NoLine]
         ELSE [pos |-> r.pos + 1, line |-> inp[r.pos + 1],
               line_nr |-> r.line_nr + 1]
    ELSE [r EXCEPT !.line = NoLine]

AtEnd(inp, r) == r.pos >= Len(inp)

\* a skip of blank lines only
RECURSIVE skip_blank(_, _)
skip_blank(inp, r) ==
    IF IsBlank(r.line)
    THEN IF ReadFails(inp, r) THEN [r |-> ReadLine(inp, r), res |-> Err("Io")]
         ELSE IF AtEnd(inp, r) THEN [r |-> ReadLine(inp, r), res |-> Ok(<<>>)]
         ELSE skip_blank(inp, ReadLine(inp, r))
    ELSE [r |-> r, res |-> Ok(<<>>)]

RECURSIVE skip_headers(_, _)
skip_headers(inp, r) ==
    IF IsBlank(r.line) \/ StartsWithHepMC(r.line)
    THEN IF ReadFails(inp, r) THEN [r |-> ReadLine(inp, r), res |-> Err("Io")]
         ELSE IF AtEnd(inp, r) THEN [r |-> ReadLine(inp, r), res |-> Ok(<<>>)]
         ELSE skip_headers(inp, ReadLine(inp, r))
    ELSE [r |-> r, res |-> Ok(<<>>)]

\* a match whose last arm goes on with the next line
Dispatch_lenient(l, event) ==
    LET b == FirstByte(l) IN
    CASE b = "V" -> parse_vertex_line(l, event)
      [] b = "P" -> parse_particle_line(l, event)
      [] b = "U" -> parse_units_line(l, event)
      [] b = "F" -> parse_pdf_info_line(l, event)
      [] b = "H" -> parse_heavy_ion_line(l, event)
      [] b = "N" -> parse_weight_names_line(l, event)
      [] b = "C" -> parse_xs_info_line(l, event)
      [] OTHER -> Ok(event)

\* the match on the first byte of a body line
Dispatch(l, event) ==
    LET b == FirstByte(l) IN
    CASE b = "V" -> parse_vertex_line(l, event)
      [] b = "P" -> parse_particle_line(l, event)
      [] b = "U" -> parse_units_line(l, event)
      [] b = "F" -> parse_pdf_info_line(l, event)
      [] b = "H" -> parse_heavy_ion_line(l, event)
      [] b = "N" -> parse_weight_names_line(l, event)
      [] b = "C" -> parse_xs_info_line(l, event)
      [] OTHER -> Err("BadPrefix")

\* a loop that takes the E line it stops at out of the buffer
RECURSIVE BodyLoop_consuming(_, _, _)
BodyLoop_consuming(inp, r, event) ==
    IF ReadFails(inp, r) THEN [r |-> ReadLine(inp, r), res |-> Err("Io")]
    ELSE IF AtEnd(inp, r) THEN [r |-> ReadLine(inp, r), res |-> Ok(event)]
    ELSE With(ReadLine(inp, r), LAMBDA r1 :
         IF FirstByte(r1.line) = "E"
         THEN [r |-> [r1 EXCEPT !.line = NoLine], res |-> Ok(event)]
         ELSE With(Dispatch(r1.line, event), LAMBDA step :
              IF ~step.ok THEN [r |-> r1, res |-> step]
              ELSE BodyLoop_consuming(inp, r1, step.val)))

\* the loop of parse_event_inner
RECURSIVE BodyLoop(_, _, _)
BodyLoop(inp, r, event) ==
    IF ReadFails(inp, r) THEN [r |-> ReadLine(inp, r), res |-> Err("Io")]
    ELSE IF AtEnd(inp, r) THEN [r |-> ReadLine(inp, r), res |-> Ok(event)]
    ELSE With(ReadLine(inp, r), LAMBDA r1 :
         IF FirstByte(r1.line) = "E" THEN [r |-> r1, res |-> Ok(event)]
         ELSE With(Dispatch(r1.line, event), LAMBDA step :
              IF ~step.ok THEN [r |-> r1, res |-> step]
              ELSE BodyLoop(inp, r1, step.val)))

\* a parse that takes a first line of another prefix as the first record of
\* an event without an event line
parse_event_inner_headless(inp, r) ==
    IF FirstByte(r.line) = "E"
    THEN With(parse_event_line(r.line), LAMBDA event :
              IF ~event.ok THEN [r |-> r, res |-> event]
              ELSE BodyLoop(inp, r, event.val))
    ELSE With(Dispatch(r.line, DefaultEvent), LAMBDA step :
              IF ~step.ok THEN [r |-> r, res |-> step]
              ELSE BodyLoop(inp, r, step.val))

parse_event_inner(inp, r) ==
    With(parse_event_line(r.line), LAMBDA event :
         IF ~event.ok THEN [r |-> r, res |-> event]
         ELSE BodyLoop(inp, r, event.val))

\* the values a pull returns; a panic is no value, it unwinds through the caller
None == [kind |-> "eos"]
SomeOk(event) == [kind |-> "ok", event |-> event]
SomeErr(err, l, nr) == [kind |-> "err", err |-> err, line |-> l, line_nr |-> nr]
Panicked == [kind |-> "panic"]
NotPulled == [kind |-> "-"]

\* a parse_event that empties the buffer after an error
parse_event_resync(inp, r) ==
    With(parse_event_inner(inp, r), LAMBDA got :
         [r |-> IF got.res.ok THEN got.r ELSE [got.r EXCEPT !.line = NoLine],
          res |-> IF got.res.ok THEN SomeOk(got.res.val)
                  ELSE IF got.res.err = "PANIC" THEN Panicked
                  ELSE SomeErr(got.res.err, got.r.line, got.r.line_nr)])

\* parse_event: an error is wrapped with the line buffer and the line number
parse_event(inp, r) ==
    With(parse_event_inner(inp, r), LAMBDA got :
         [r |-> got.r,
          res |-> IF got.res.ok THEN SomeOk(got.res.val)
                  ELSE IF got.res.err = "PANIC" THEN Panicked
                  ELSE SomeErr(got.res.err, got.r.line, got.r.line_nr)])

\* Iterator::next
next(inp, r) ==
    With(skip_headers(inp, r), LAMBDA skip :
         IF ~skip.res.ok
         THEN [r |-> skip.r,
               res |-> SomeErr(skip.res.err, skip.r.line, skip.r.line_nr)]
         ELSE IF skip.r.line = NoLine THEN [r |-> skip.r, res |-> None]
         ELSE parse_event(inp, skip.r))

(***************************************************************************)
(* The Reader's operations as actions.                                     *)
(***************************************************************************)
Reader == [pos |-> pos, line |-> line, line_nr |-> line_nr]

\* one call of next on the Reader
PullStep ==
    /\ rstate = "ready"
    /\ \E got \in {next(input, Reader)} :
       /\ pos' = got.r.pos
       /\ line' = got.r.line
       /\ line_nr' = got.r.line_nr
       /\ last' = got.res
       /\ rstate' = IF got.res.kind = "panic" THEN "panicked" ELSE "ready"
       /\ yielded' = IF got.res.kind = "ok" THEN Append(yielded, got.res.event)
                     ELSE yielded
       /\ first' = IF got.res.kind = "eos" THEN first
                   ELSE skip_headers(input, Reader).r.pos
    /\ pulls' = (pulls + 1) % 2

Pull ==
    /\ PullStep
    /\ UNCHANGED <<input, wvars, phase>>

(***************************************************************************)
(* Input lines.                                                            *)
(***************************************************************************)
L_Version == Ln(<<"HepMC::Version", "2.06.09">>)
L_Start == Ln(<<"HepMC::IO_GenEvent-START_EVENT_LISTING">>)
L_End == Ln(<<"HepMC::IO_GenEvent-END_EVENT_LISTING">>)
L_Blank == Ln(<<>>)
L_E0 == Ln(<<"E", "0", "-1", "-1.0000000000000000e+00", "1.5", "0", "0", "0",
             "1", "1", "2", "0", "0">>)
L_E1 == Ln(<<"E", "01", "0", "0", "0", "0.2", "1", "-1", "2", "0", "0", "1", "2",
             "1", "1.50">>)
L_EBad == Ln(<<"E", "0", "junk">>)
L_V1 == Ln(<<"V", "-1", "0", "0", "0", "0", "0", "0", "1", "0">>)
L_V2 == Ln(<<"V", "-2", "1", "0", "1.5", "0", "0", "0", "2", "1", "1.0">>)
L_P1 == Ln(<<"P", "3", "-1", "0", "0", "1.5", "1.5", "0", "1", "0", "0", "-1", "0">>)
L_P2 == Ln(<<"P", "4", "2", "0.2", "0", "0", "1.5", "0", "2", "0", "0", "-2",
             "1", "1", "2">>)
L_P0 == Ln(<<"P", "1", "1", "0", "0", "0", "0", "0", "1", "0", "0", "0", "0">>)
L_PBad == Ln(<<"P", "3", "junk">>)
L_N == Ln(<<"N", "1", "\"w\"">>)
L_U == Ln(<<"U", "GEV", "MM">>)
L_C == Ln(<<"C", "1.5", "0.2">>)
L_F == LnTrail(<<"F", "1", "2", "0.2", "0.2", "1.5", "0", "0", "1", "2">>)
L_FNoIds == Ln(<<"F", "1", "2", "0.2", "0.2", "1.5", "0", "0">>)
L_FBare == Ln(<<"F", "1", "2", "0.2", "0.2", "1.5", "0", "0", "1", "2">>)
L_H == Ln(<<"H", "1", "1", "1", "1", "0", "0", "0", "0", "0", "1.5", "0", "0", "0">>)
L_X == Ln(<<"X", "0">>)
L_EHuge == Ln(<<"E", "0", "-1", "0", "0", "0", "0", "0", UsizeMaxDigits, "1", "2",
                "0", "0">>)
L_HBad == Ln(<<"H", "junk">>)
L_UBad == Ln(<<"U", "FOO", "MM">>)

\* the sequences of at most n elements of S
SeqsUpTo(S, n) == UNION {[1..k -> S] : k \in 0..n}

ReaderPool ==
    {L_End, L_Blank, L_E0, L_E1, L_EBad, L_V1, L_V2, L_P1, L_P2, L_PBad, L_U}

(***************************************************************************)
(* The Writer's formatting (src/src/writer.rs): the text of each record.   *)
(***************************************************************************)
DEFAULT_HEADER == <<L_Version, L_Start>>
DEFAULT_FOOTER == L_End

\* f applied to each element of a sequence
Map(f(_), xs) == [i \in 1..Len(xs) |-> f(xs[i])]

RECURSIVE Flatten(_)
Flatten(xss) == IF xss = <<>> THEN <<>> ELSE Head(xss) \o Flatten(Tail(xss))

write_event_line(event) ==
    Ln(<<"E", IntStr(event.number), IntStr(event.mpi), ryu_format(event.scale),
         ryu_format(event.alpha_qcd), ryu_format(event.alpha_qed),
         IntStr(event.signal_process_id), IntStr(event.signal_process_vertex),
         IntStr(Len(event.vertices)), "0", "0", IntStr(Len(event.random_states))>>
       \o Map(IntStr, event.random_states)
       \o <<IntStr(Len(event.weights))>>
       \o Map(ryu_format, event.weights))

write_vertex_line(vertex) ==
    Ln(<<"V", IntStr(vertex.barcode), IntStr(vertex.status), ryu_format(vertex.x),
         ryu_format(vertex.y), ryu_format(vertex.z), ryu_format(vertex.t), "0",
         IntStr(Len(vertex.particles_in) + Len(vertex.particles_out)),
         IntStr(Len(vertex.weights))>>
       \o Map(DisplayF64, vertex.weights))

\* the keys of a flow map in ascending order, as a BTreeMap iterates
RECURSIVE SortedKeys(_)
SortedKeys(ks) ==
    IF ks = {} THEN <<>>
    ELSE LET k == CHOOSE x \in ks : \A y \in ks : x <= y
         IN <<k>> \o SortedKeys(ks \ {k})

FlowTokens(flows) ==
    Flatten([i \in 1..Len(SortedKeys(DOMAIN flows)) |->
                <<IntStr(SortedKeys(DOMAIN flows)[i]),
                  IntStr(flows[SortedKeys(DOMAIN flows)[i]])>>])

\* p[1] is component 0 of the FourVector
write_particle_line(particle) ==
    Ln(<<"P", "0", IntStr(particle.id), ryu_format(particle.p[2]),
         ryu_format(particle.p[3]), ryu_format(particle.p[4]),
         ryu_format(particle.p[1]), ryu_format(particle.m), IntStr(particle.status),
         ryu_format(particle.theta), ryu_format(particle.phi),
         IntStr(particle.end_vtx), IntStr(Cardinality(DOMAIN particle.flows))>>
       \o FlowTokens(particle.flows))

write_weight_names_line(names) ==
    Ln(<<"N", IntStr(Len(names))>> \o Map(Quote, names))

write_unit_line(event) ==
    Ln(<<"U", DebugUnit(event.energy_unit), DebugUnit(event.length_unit)>>)

write_cross_section_line(xs) ==
    Ln(<<"C", ryu_format(xs.cross_section), ryu_format(xs.cross_section_error)>>)

write_pdf_info_line(pdf) ==
    Ln(<<"F", IntStr(pdf.parton_id[1]), IntStr(pdf.parton_id[2]),
         ryu_format(pdf.x[1]), ryu_format(pdf.x[2]), ryu_format(pdf.scale),
         ryu_format(pdf.xf[1]), ryu_format(pdf.xf[2]),
         IntStr(pdf.pdf_id[1]), IntStr(pdf.pdf_id[2])>>)

write_heavy_ion_info_line(hi) ==
    Ln(<<"H", IntStr(hi.ncoll_hard), IntStr(hi.npart_proj), IntStr(hi.npart_targ),
         IntStr(hi.ncoll), IntStr(hi.spectator_neutrons),
         IntStr(hi.spectator_protons), IntStr(hi.n_nwounded_collisions),
         IntStr(hi.nwounded_n_collisions), IntStr(hi.nwounded_nwounded_collisions),
         ryu_format(hi.impact_parameter), ryu_format(hi.event_plane_angle),
         ryu_format(hi.eccentricity), ryu_format(hi.sigma_inel_nn)>>)

\* the outgoing particles before the incoming ones
VertexParticles_swapped(vertex) == vertex.particles_out \o vertex.particles_in

\* the inner loop of write: particles_in chained with particles_out
VertexParticles(vertex) == vertex.particles_in \o vertex.particles_out

\* one turn of the loop over the vertices
VertexRecords(vertex) ==
    <<write_vertex_line(vertex)>> \o Map(write_particle_line, VertexParticles(vertex))

\* the records of an event with the N line tied to the weights
EventRecords_byweights(event) ==
    <<write_event_line(event)>>
    \o (IF event.weights # <<>>
        THEN <<write_weight_names_line(event.weight_names)>> ELSE <<>>)
    \o <<write_unit_line(event),
         write_cross_section_line(event.xs),
         write_pdf_info_line(event.pdf_info)>>
    \o (IF event.heavy_ion_info # <<>>
        THEN <<write_heavy_ion_info_line(event.heavy_ion_info[1])>> ELSE <<>>)
    \o Flatten(Map(VertexRecords, event.vertices))

\* Writer::write: the records of an event in the order they are written
EventRecords(event) ==
    <<write_event_line(event)>>
    \o (IF event.weight_names # <<>>
        THEN <<write_weight_names_line(event.weight_names)>> ELSE <<>>)
    \o <<write_unit_line(event),
         write_cross_section_line(event.xs),
         write_pdf_info_line(event.pdf_info)>>
    \o (IF event.heavy_ion_info # <<>>
        THEN <<write_heavy_ion_info_line(event.heavy_ion_info[1])>> ELSE <<>>)
    \o Flatten(Map(VertexRecords, event.vertices))

(***************************************************************************)
(* The Writer (src/src/writer.rs).  wr is [stream, finished] with the log  *)
(* channel and counters of what happened on the stream: tries, the writes  *)
(* of the footer attempted, ffails, those of them that failed, and fails,  *)
(* all the writes that failed.                                             *)
(*                                                                         *)
(* What the stream does with one write is the environment's choice io =    *)
(* [n, frag]: n lines get through; when that is not all of them the write  *)
(* fails, leaving nothing more or (frag) an unterminated piece of the next *)
(* line.                                                                   *)
(***************************************************************************)
IOs(lines) ==
    {[n |-> Len(lines), frag |-> FALSE]}
    \cup {[n |-> k, frag |-> f] : k \in 0..(Len(lines) - 1), f \in BOOLEAN}

IoOk(lines, io) == io.n = Len(lines)

\* a stream that puts what it is given in front of what it holds
Put_front(stream, lines, io) ==
    SubSeq(lines, 1, io.n)
    \o (IF io.n < Len(lines) /\ io.frag
        THEN <<Fragment(<<lines[io.n + 1].toks[1]>>)>> ELSE <<>>)
    \o stream

\* the text of lines the stream holds after the write
Put(stream, lines, io) ==
    stream \o SubSeq(lines, 1, io.n)
           \o (IF ~IoOk(lines, io) /\ io.frag
               THEN <<Fragment(<<lines[io.n + 1].toks[1]>>)>> ELSE <<>>)

\* the Writer's stream and counters after a write of lines
Emit(wr, lines, io) ==
    [wr EXCEPT !.stream = Put(@, lines, io),
               !.fails = IF IoOk(lines, io) THEN @ ELSE @ + 1]

MSG_DROPPED == "Hepmc2 writer dropped before finished."
MSG_CALL_FINISH == "Call finish() manually to fix this error."
MSG_FOOTER == "Error writing footer"

\* the struct literal of with_header
NewWriter(stream) ==
    [stream |-> stream, finished |-> FALSE, log |-> <<>>,
     tries |-> 0, ffails |-> 0, fails |-> 0]

\* ref_finish: [w, ok]
ref_finish(wr, io) ==
    With([Emit(wr, <<DEFAULT_FOOTER>>, io) EXCEPT !.tries = @ + 1], LAMBDA w1 :
         IF IoOk(<<DEFAULT_FOOTER>>, io)
         THEN [w |-> [w1 EXCEPT !.finished = TRUE], ok |-> TRUE]
         ELSE [w |-> [w1 EXCEPT !.ffails = @ + 1], ok |-> FALSE])

\* a drop that does not look at the finished flag
drop_unguarded(wr, io) ==
    With(ref_finish([wr EXCEPT !.log = @ \o <<MSG_DROPPED, MSG_CALL_FINISH>>], io),
         LAMBDA res :
         IF ~res.ok THEN [res.w EXCEPT !.log = Append(@, MSG_FOOTER)]
         ELSE res.w)

\* a drop that logs and leaves the stream alone
drop_silent(wr, io) ==
    IF ~wr.finished
    THEN [wr EXCEPT !.log = @ \o <<MSG_DROPPED, MSG_CALL_FINISH>>]
    ELSE wr

\* Drop::drop (feature sync)
drop(wr, io) ==
    IF ~wr.finished
    THEN With(ref_finish([wr EXCEPT !.log = @ \o <<MSG_DROPPED, MSG_CALL_FINISH>>], io),
              LAMBDA res :
              IF ~res.ok THEN [res.w EXCEPT !.log = Append(@, MSG_FOOTER)]
              ELSE res.w)
    ELSE wr

\* write_header: [w, ok]
write_header(wr, header, io) ==
    [w |-> Emit(wr, header, io), ok |-> IoOk(header, io)]

\* with_header: [w, ok]; the Writer built is dropped when the header fails
with_header(stream, header, io, io_drop) ==
    With(write_header(NewWriter(stream), header, io), LAMBDA res :
         IF res.ok THEN [w |-> res.w, ok |-> TRUE]
         ELSE [w |-> drop(res.w, io_drop), ok |-> FALSE])

\* Writer::new and Writer::try_from
new(stream, io, io_drop) == with_header(stream, DEFAULT_HEADER, io, io_drop)
try_from(stream, io, io_drop) == with_header(stream, DEFAULT_HEADER, io, io_drop)

\* Writer::write: [w, ok]
write(wr, event, io) ==
    [w |-> Emit(wr, EventRecords(event), io), ok |-> IoOk(EventRecords(event), io)]

\* Writer::finish: [w, ok]; self is dropped as finish returns
finish(wr, io, io_drop) ==
    With(ref_finish(wr, io), LAMBDA res :
         [w |-> drop(res.w, io_drop), ok |-> res.ok])

\* an into_inner that leaves the finished flag as it is
into_inner_unflagged(wr) ==
    [w |-> drop([wr EXCEPT !.stream = <<>>], [n |-> 0, frag |-> FALSE]),
     inner |-> wr.stream]

\* Writer::into_inner: [w, inner]; self is dropped as into_inner returns,
\* and no write of that drop is made
into_inner(wr) ==
    [w |-> drop([wr EXCEPT !.finished = TRUE, !.stream = <<>>], [n |-> 0, frag |-> FALSE]),
     inner |-> wr.stream]

(***************************************************************************)
(* Events to write.                                                        *)
(***************************************************************************)
PA == [id |-> 1, p |-> <<15, 0, 0, 15>>, m |-> 0, status |-> 1, theta |-> 0,
       phi |-> 0, flows |-> <<>>, end_vtx |-> -1]
PB == [id |-> 2, p |-> <<15, 2, 0, 0>>, m |-> 2, status |-> 2, theta |-> 0,
       phi |-> 0, flows |-> (2 :> 1) @@ (1 :> 2), end_vtx |-> 0]
VA == [barcode |-> -1, status |-> 0, x |-> 0, y |-> 0, z |-> 0, t |-> 0,
       weights |-> <<15>>, particles_in |-> <<PA>>, particles_out |-> <<PB>>]
VB == [barcode |-> -2, status |-> 1, x |-> 0, y |-> 0, z |-> 0, t |-> 15,
       weights |-> <<>>, particles_in |-> <<>>, particles_out |-> <<PA>>]
HI == [ncoll_hard |-> 1, npart_proj |-> 2, npart_targ |-> 2, ncoll |-> 1,
       spectator_neutrons |-> 0, spectator_protons |-> 0,
       n_nwounded_collisions |-> 0, nwounded_n_collisions |-> 0,
       nwounded_nwounded_collisions |-> 0, impact_parameter |-> 15,
       event_plane_angle |-> 0, eccentricity |-> 2, sigma_inel_nn |-> 0]

EvNamed == [DefaultEvent EXCEPT !.number = 2, !.weights = <<10, 15>>,
                                !.weight_names = <<"w">>, !.energy_unit = "MEV",
                                !.vertices = <<VA, VB>>]
EvIon == [DefaultEvent EXCEPT !.heavy_ion_info = <<HI>>, !.random_states = <<2>>,
                              !.weights = <<15>>]

WriterEvents == {EvNamed, EvIon}

Headers == {DEFAULT_HEADER, <<>>}

(***************************************************************************)
(* The Writer's operations as actions.  wstate is "none" before the        *)
(* constructor is called, "live" while the caller holds the Writer,        *)
(* "failed" when the constructor returned Err, and then the way the Writer *)
(* was given up: "finished", "dropped" or "taken".                         *)
(***************************************************************************)
NoWriter == NewWriter(<<>>)

WriterIdle ==
    /\ w = NoWriter
    /\ wstate = "none"
    /\ wres = "-"
    /\ calls = <<>>
    /\ hdr = <<>>
    /\ inner = <<>>

ResultOf(ok) == IF ok THEN "ok" ELSE "err"

\* Writer::with_header over an empty stream (Writer::new with DEFAULT_HEADER)
WithHeader ==
    /\ wstate = "none"
    /\ \E header \in Headers, io_drop \in IOs(<<DEFAULT_FOOTER>>) :
       \E io \in IOs(header) :
       \E got \in {with_header(<<>>, header, io, io_drop)} :
          /\ w' = got.w
          /\ wstate' = IF got.ok THEN "live" ELSE "failed"
          /\ wres' = ResultOf(got.ok)
          /\ hdr' = header
    /\ UNCHANGED <<rvars, calls, inner, phase>>

Write ==
    /\ wstate = "live"
    /\ Len(calls) < MaxWrites
    /\ \E event \in WriterEvents :
       \E io \in IOs(EventRecords(event)) :
       \E got \in {write(w, event, io)} :
          /\ w' = got.w
          /\ wres' = ResultOf(got.ok)
          /\ calls' = Append(calls, [event |-> event, io |-> io, at |-> Len(w.stream)])
    /\ UNCHANGED <<rvars, wstate, hdr, inner, phase>>

Finish ==
    /\ wstate = "live"
    /\ \E io \in IOs(<<DEFAULT_FOOTER>>), io_drop \in IOs(<<DEFAULT_FOOTER>>) :
       \E got \in {finish(w, io, io_drop)} :
          /\ w' = got.w
          /\ wres' = ResultOf(got.ok)
    /\ wstate' = "finished"
    /\ UNCHANGED <<rvars, calls, hdr, inner, phase>>

\* the Writer goes out of scope without finish or into_inner
Drop ==
    /\ wstate = "live"
    /\ \E io \in IOs(<<DEFAULT_FOOTER>>) : w' = drop(w, io)
    /\ wstate' = "dropped"
    /\ wres' = "-"
    /\ UNCHANGED <<rvars, calls, hdr, inner, phase>>

IntoInner ==
    /\ wstate = "live"
    /\ \E got \in {into_inner(w)} :
          /\ w' = got.w
          /\ inner' = got.inner
    /\ wstate' = "taken"
    /\ wres' = "-"
    /\ UNCHANGED <<rvars, calls, hdr, phase>>

ReaderInit(pool, n) ==
    /\ input \in SeqsUpTo(pool, n)
    /\ pos = 0
    /\ line = NoLine
    /\ line_nr = 0
    /\ rstate = "ready"
    /\ last = NotPulled
    /\ yielded = <<>>
    /\ first = 0
    /\ pulls = 0

(***************************************************************************)
(* The Reader alone, over every input of at most MaxLines lines.           *)
(***************************************************************************)
InitR == ReaderInit(ReaderPool, MaxLines) /\ WriterIdle /\ phase = "read"
NextR == Pull
ReaderSpec == InitR /\ [][NextR]_vars

\* The Reader pulled for ever: the caller goes on pulling as long as the
\* Reader has not panicked.
FairPool == {L_End, L_Blank, L_E0, L_EBad, L_V1, L_P1}
MaxFairLines == 3
InitFair ==
    /\ ReaderInit(FairPool, MaxFairLines)
    /\ WriterIdle
    /\ phase = "read"
FairReaderSpec == InitFair /\ [][NextR]_vars /\ WF_vars(Pull)

\* The Reader over inputs that hold lines it has no parser for, lines with
\* unit names the data model does not have, and lines that cannot be read.
ErrorPool ==
    {L_End, L_Blank, L_E0, L_EHuge, L_V1, L_P1, L_PBad, L_X, L_H, L_HBad,
     L_UBad, InvalidUtf8}
InitE == ReaderInit(ErrorPool, MaxLines) /\ WriterIdle /\ phase = "read"
ErrorSpec == InitE /\ [][NextR]_vars

\* The Reader over inputs that hold F lines with and without the two PDF set
\* ids, and with and without blanks at the end of the line.
PdfPool == {L_E0, L_E1, L_V1, L_C, L_F, L_FNoIds, L_FBare}
InitP == ReaderInit(PdfPool, MaxLines) /\ WriterIdle /\ phase = "read"
PdfSpec == InitP /\ [][NextR]_vars

\* The Reader over inputs of well-formed event, vertex and particle lines
\* only, with particles of three kinds.
VertexPool == {L_E0, L_E1, L_V1, L_V2, L_P0, L_P1, L_P2}
InitV == ReaderInit(VertexPool, MaxLines) /\ WriterIdle /\ phase = "read"
VertexSpec == InitV /\ [][NextR]_vars

(***************************************************************************)
(* The Writer alone: one Writer over an empty stream that may fail.        *)
(***************************************************************************)
ReaderIdle ==
    /\ input = <<>>
    /\ pos = 0
    /\ line = NoLine
    /\ line_nr = 0
    /\ rstate = "ready"
    /\ last = NotPulled
    /\ yielded = <<>>
    /\ first = 0
    /\ pulls = 0

InitW == ReaderIdle /\ WriterIdle /\ phase = "write"
NextW == WithHeader \/ Write \/ Finish \/ Drop \/ IntoInner
WriterSpec == InitW /\ [][NextW]_vars

(***************************************************************************)
(* Read, write, read again (tests::tst_read_write in src/src/lib.rs): the  *)
(* first event of an input is read, written by a Writer over a buffer in   *)
(* memory, whose writes do not fail, and the buffer is read by a second    *)
(* Reader.                                                                 *)
(***************************************************************************)
\* the stream takes all of a write
OkIo(lines) == [n |-> Len(lines), frag |-> FALSE]

\* the record lines of one event as an input may hold them
EventTexts ==
    {<<L_E0>>, <<L_E1>>, <<L_E0, L_U, L_C>>, <<L_E1, L_N, L_U, L_C, L_F>>,
     <<L_E0, L_V1, L_P1>>, <<L_E1, L_V1, L_P1, L_V2, L_P2, L_P0>>,
     <<L_E1, L_F, L_V2, L_P0, L_P2>>}

\* what may follow the first event: the end of the input, a second event,
\* the footer
RoundTripInputs ==
    {pre \o ev \o post : pre \in {<<>>, DEFAULT_HEADER}, ev \in EventTexts,
                         post \in {<<>>, <<L_E0>>, <<L_End>>}}

\* let mut reader = Reader::from(EVENT_TXT); reader.next()
RtRead ==
    /\ phase = "read"
    /\ last = NotPulled
    /\ PullStep
    /\ phase' = IF last'.kind = "ok" THEN "write" ELSE "stop"
    /\ UNCHANGED <<input, wvars>>

\* Writer::try_from(&mut buf)
RtTryFrom ==
    /\ phase = "write"
    /\ wstate = "none"
    /\ \E got \in {try_from(<<>>, OkIo(DEFAULT_HEADER), OkIo(<<DEFAULT_FOOTER>>))} :
          /\ w' = got.w
          /\ wres' = ResultOf(got.ok)
    /\ wstate' = "live"
    /\ hdr' = DEFAULT_HEADER
    /\ UNCHANGED <<rvars, calls, inner, phase>>

\* writer.write(&event)
RtWrite ==
    /\ phase = "write"
    /\ wstate = "live"
    /\ calls = <<>>
    /\ \E io \in {OkIo(EventRecords(yielded[1]))} :
       \E got \in {write(w, yielded[1], io)} :
          /\ w' = got.w
          /\ wres' = ResultOf(got.ok)
          /\ calls' = Append(calls, [event |-> yielded[1], io |-> io,
                                     at |-> Len(w.stream)])
    /\ UNCHANGED <<rvars, wstate, hdr, inner, phase>>

\* writer.finish()
RtFinish ==
    /\ phase = "write"
    /\ wstate = "live"
    /\ calls # <<>>
    /\ \E got \in {finish(w, OkIo(<<DEFAULT_FOOTER>>), OkIo(<<DEFAULT_FOOTER>>))} :
          /\ w' = got.w
          /\ wres' = ResultOf(got.ok)
    /\ wstate' = "finished"
    /\ UNCHANGED <<rvars, calls, hdr, inner, phase>>

\* the end of the block the Writer lives in, when finish was not called
RtDrop ==
    /\ phase = "write"
    /\ wstate = "live"
    /\ calls # <<>>
    /\ w' = drop(w, OkIo(<<DEFAULT_FOOTER>>))
    /\ wstate' = "dropped"
    /\ wres' = "-"
    /\ UNCHANGED <<rvars, calls, hdr, inner, phase>>

\* let mut reader = Reader::from(BufReader::new(buf.as_slice()))
RtReopen ==
    /\ phase = "write"
    /\ wstate \in {"finished", "dropped"}
    /\ input' = w.stream
    /\ pos' = NewReader.pos
    /\ line' = NewReader.line
    /\ line_nr' = NewReader.line_nr
    /\ rstate' = "ready"
    /\ last' = NotPulled
    /\ first' = 0
    /\ pulls' = 0
    /\ phase' = "reread"
    /\ UNCHANGED <<yielded, wvars>>

\* reader.next() on the second Reader, until it ends or fails
RtReread ==
    /\ phase = "reread"
    /\ last.kind \in {"-", "ok"}
    /\ PullStep
    /\ UNCHANGED <<input, wvars, phase>>

InitRT ==
    /\ input \in RoundTripInputs
    /\ pos = NewReader.pos
    /\ line = NewReader.line
    /\ line_nr = NewReader.line_nr
    /\ rstate = "ready"
    /\ last = NotPulled
    /\ yielded = <<>>
    /\ first = 0
    /\ pulls = 0
    /\ WriterIdle
    /\ phase = "read"

NextRT == RtRead \/ RtTryFrom \/ RtWrite \/ RtFinish \/ RtDrop \/ RtReopen \/ RtReread
RoundTripSpec == InitRT /\ [][NextRT]_vars

(***************************************************************************)
(* Properties of the Writer.                                               *)
(***************************************************************************)
\* how many times the footer line stands in a stream
FooterCount(stream) == Cardinality({i \in DOMAIN stream : stream[i] = DEFAULT_FOOTER})

\* the Writer's lifetime is over, by finish or by drop
Ended == wstate \in {"finished", "dropped"}

\* C1 as stated: at the end of every Writer lifetime that ends by finish or
\* by drop the footer line has been written to the stream exactly once.
C1_FooterExactlyOnce == Ended => FooterCount(w.stream) = 1

\* C1 amended: at the end of every Writer lifetime that ends by finish or by
\* drop the footer line has been written never twice, and exactly once unless
\* every write of the footer that was attempted failed; then it is not there.
C1_FooterOnceUnlessWritesFailed ==
    Ended =>
       /\ w.tries >= 1
       /\ FooterCount(w.stream) = (IF w.ffails = w.tries THEN 0 ELSE 1)

\* finish failed on the stream and the write made by the drop went through,
\* after an event was written
C1_Witness ==
    /\ wstate = "finished"
    /\ wres = "err"
    /\ calls # <<>>
    /\ w.tries = 2
    /\ w.ffails = 1
    /\ FooterCount(w.stream) = 1

(***************************************************************************)
(* Properties of reading back what was written.                            *)
(***************************************************************************)
\* C2: the event read first, written by the Writer and read back from the
\* Writer's output, comes back as exactly one event equal to it: each pull of
\* the second Reader yields that event or, after it, the end of the sequence.
C2_RoundTrip ==
    (phase = "reread" /\ last # NotPulled) =>
       /\ Len(yielded) = 2
       /\ yielded[2] = yielded[1]
       /\ last \in {SomeOk(yielded[1]), None}

(***************************************************************************)
(* Properties of the Reader.  After a pull that did not end the sequence,  *)
(* first is the number of the line the pull took for the event line; the   *)
(* lines of the event are the ones from there to BodyEnd.                  *)
(***************************************************************************)
GoodE == {L_E0, L_E1}
GoodV == {L_V1, L_V2}
GoodP == {L_P0, L_P1, L_P2}
GoodMeta == {L_N, L_U, L_C, L_F}

IsFraming(l) == IsBlank(l) \/ StartsWithHepMC(l)

\* the number of framing lines a sequence of lines begins with
RECURSIVE LeadingFraming(_)
LeadingFraming(ls) ==
    IF ls # <<>> /\ IsFraming(Head(ls)) THEN 1 + LeadingFraming(Tail(ls)) ELSE 0

Reverse(ls) == [i \in 1..Len(ls) |-> ls[Len(ls) + 1 - i]]

\* the lines between the leading and the trailing framing lines
Core(ls) ==
    SubSeq(ls, LeadingFraming(ls) + 1, Len(ls) - LeadingFraming(Reverse(ls)))

\* well-formed events one after the other: an event line first, then record
\* lines, each particle line after a vertex line of its event
WellFormedEvents(ls) ==
    /\ \A i \in DOMAIN ls : ls[i] \in GoodE \cup GoodV \cup GoodP \cup GoodMeta
    /\ ls # <<>> => ls[1] \in GoodE
    /\ \A i \in DOMAIN ls :
          ls[i] \in GoodP =>
             \E j \in 1..(i - 1) :
                /\ ls[j] \in GoodV
                /\ \A k \in j..i : ls[k] \notin GoodE

\* framing lines, N well-formed events, framing lines
WellFormedStream(ls) == WellFormedEvents(Core(ls))

NumEvents(ls) == Cardinality({i \in DOMAIN ls : ls[i] \in GoodE})

\* C3: over an input of framing lines and N well-formed events every pull
\* yields Ok or the end of the sequence, the Ok results are the events in
\* stream order, and when the end is signalled exactly N events were yielded.
C3_CountPreserved ==
    WellFormedStream(input) =>
       /\ rstate = "ready"
       /\ last.kind \in {"-", "ok", "eos"}
       /\ Len(yielded) <= NumEvents(input)
       /\ last.kind = "eos" => Len(yielded) = NumEvents(input)

\* the last line of the event of the last pull: the line before the event
\* line the pull stopped at, or the last line of the input
BodyEnd == IF line = NoLine THEN pos ELSE pos - 1

\* the lines of the event of the last pull, the event line first
EventLines == SubSeq(input, first, BodyEnd)

\* the places of the vertex lines among the lines of an event, ascending
VLines(ls) == SortedKeys({i \in DOMAIN ls : FirstByte(ls[i]) = "V"})

\* the lines after the j-th vertex line up to the next vertex line
GroupOf(ls, vs, j) ==
    SubSeq(ls, vs[j] + 1, IF j < Len(vs) THEN vs[j + 1] - 1 ELSE Len(ls))

IsPLine(l) == FirstByte(l) = "P"

\* the id and the end vertex code a particle line states
PKey(l) == <<IntTable[l.toks[3]], IntTable[l.toks[12]]>>
PKeys(ls) == Map(PKey, SelectSeq(ls, IsPLine))

\* the id and the end vertex code of each particle of a list
Keys(ps) == [i \in DOMAIN ps |-> <<ps[i].id, ps[i].end_vtx>>]

\* the particles a vertex holds are the ones of the given lines, those that
\* end at the vertex incoming and all the others outgoing
ClassifiedAt(v, keys) ==
    /\ Keys(v.particles_in) = SelectSeq(keys, LAMBDA k : k[2] = v.barcode)
    /\ Keys(v.particles_out) = SelectSeq(keys, LAMBDA k : k[2] # v.barcode)

Classified(event, ls, vs) ==
    /\ Len(event.vertices) = Len(vs)
    /\ \A j \in 1..Len(vs) : ClassifiedAt(event.vertices[j], PKeys(GroupOf(ls, vs, j)))

\* C4: in every event a pull yields, each vertex holds exactly the particles
\* of the P lines between its V line and the next V or E line, in line order:
\* in particles_in those whose end_vtx equals the vertex's barcode, in
\* particles_out all the others, whatever the barcodes of earlier vertices.
C4_ClassifiedByLastVertex ==
    last.kind = "ok" => Classified(last.event, EventLines, VLines(EventLines))

\* an event of two vertices was yielded whose second vertex holds, as an
\* outgoing particle, a particle that ends at the first vertex
C4_Witness ==
    /\ last.kind = "ok"
    /\ Len(last.event.vertices) = 2
    /\ \E i \in DOMAIN last.event.vertices[2].particles_out :
          last.event.vertices[2].particles_out[i].end_vtx
             = last.event.vertices[1].barcode

\* C5: over every finite input the pulls come to an end: after finitely
\* many of them a pull returns the end of the sequence.
C5_EventuallyEnds == <>(last = None)

(***************************************************************************)
(* Properties of what the Writer puts on the stream.                       *)
(***************************************************************************)
\* the stream the Writer was given, also after into_inner handed it back
Out == IF wstate = "taken" THEN inner ELSE w.stream

\* the lines the i-th write call got through to the stream
Written(i) == SubSeq(Out, calls[i].at + 1, calls[i].at + calls[i].io.n)

IsPrefix(a, b) == Len(a) <= Len(b) /\ a = SubSeq(b, 1, Len(a))

Kinds(ls) == [i \in DOMAIN ls |-> ls[i].toks[1]]

\* the record kinds of an event in the order the format asks for
KindsOf(event) ==
    <<"E">>
    \o (IF event.weight_names # <<>> THEN <<"N">> ELSE <<>>)
    \o <<"U", "C", "F">>
    \o (IF event.heavy_ion_info # <<>> THEN <<"H">> ELSE <<>>)
    \o Flatten(Map(LAMBDA v : <<"V">> \o [k \in 1..(Len(v.particles_in)
                                                    + Len(v.particles_out)) |-> "P"],
                   event.vertices))

\* the records and the record kinds of the events the Writer is given
RecordsOf == [event \in WriterEvents |-> EventRecords(event)]
KindsOfEvent == [event \in WriterEvents |-> KindsOf(event)]

\* each vertex line is the line of the vertex at its place in the list, and
\* the lines up to the next vertex line are its incoming particles in list
\* order and then its outgoing particles in list order
VerticesInOrder(event, ls, vs) ==
    /\ Len(vs) = Len(event.vertices)
    /\ \A j \in 1..Len(vs) :
          /\ ls[vs[j]] = write_vertex_line(event.vertices[j])
          /\ GroupOf(ls, vs, j)
                = Map(write_particle_line, event.vertices[j].particles_in)
                  \o Map(write_particle_line, event.vertices[j].particles_out)

\* the lines ls a write call of an event put on the stream are of the given
\* kinds in their order, all of them when the call succeeded and a prefix
\* otherwise, and each vertex comes with its particles
RecordsInOrder(event, ls, kinds, ok) ==
    /\ IsPrefix(Kinds(ls), kinds)
    /\ ok => Len(ls) = Len(kinds)
    /\ Len(ls) = Len(kinds) =>
          /\ ls[1] = write_event_line(event)
          /\ VerticesInOrder(event, ls, VLines(ls))

CompleteLines(ls) == SelectSeq(ls, LAMBDA l : ~l.cut)

\* what the write calls got through, in call order
CallLines ==
    Flatten([i \in DOMAIN calls |->
                SubSeq(RecordsOf[calls[i].event], 1, calls[i].io.n)])

\* the lines ls are the header, or a part of it when the constructor failed,
\* then the lines of the write calls, then the footer or nothing
InStreamOrder(ls, body) ==
    \E h \in 0..Len(hdr), f \in {<<>>, <<DEFAULT_FOOTER>>} :
       /\ wstate # "failed" => h = Len(hdr)
       /\ ls = SubSeq(hdr, 1, h) \o body \o f

\* C7: once the constructor was called the stream holds, in this order, the
\* header (all of it when the constructor succeeded), the records of the
\* write calls in call order, and the footer, if it was written, as the last
\* line with nothing after it; a lifetime without a failed write that ends by
\* finish or drop leaves exactly header, records and footer.
C7_StreamOrder ==
    wstate # "none" =>
       /\ InStreamOrder(CompleteLines(Out), CallLines)
       /\ \A i \in DOMAIN Out : Out[i] = DEFAULT_FOOTER => i = Len(Out)
       /\ (Ended /\ w.fails = 0) =>
             Out = hdr \o Flatten([i \in DOMAIN calls |-> RecordsOf[calls[i].event]])
                       \o <<DEFAULT_FOOTER>>

\* a Writer with the default header wrote two different events and was
\* finished, and no write failed
C7_Witness ==
    /\ wstate = "finished"
    /\ wres = "ok"
    /\ w.fails = 0
    /\ hdr = DEFAULT_HEADER
    /\ Len(calls) = 2
    /\ calls[1].event # calls[2].event

\* C8: a drop of a Writer that was not finished logs that, makes one write
\* of the footer and returns; when the write goes through the stream is what
\* finish would have left, and when it fails the failure is logged and the
\* stream holds no footer.
C8_DropFallback ==
    [][(wstate = "live" /\ wstate' = "dropped") =>
          /\ w'.tries = w.tries + 1
          /\ wres' = "-"
          /\ w'.ffails = w.ffails =>
                /\ w'.stream = finish(w, OkIo(<<DEFAULT_FOOTER>>),
                                      OkIo(<<DEFAULT_FOOTER>>)).w.stream
                /\ w'.stream = w.stream \o <<DEFAULT_FOOTER>>
                /\ w'.log = w.log \o <<MSG_DROPPED, MSG_CALL_FINISH>>
          /\ w'.ffails # w.ffails =>
                /\ FooterCount(w'.stream) = 0
                /\ w'.log = w.log \o <<MSG_DROPPED, MSG_CALL_FINISH, MSG_FOOTER>>]_vars

\* a Writer that had written an event was dropped and the drop's write of
\* the footer failed
C8_Witness ==
    /\ wstate = "dropped"
    /\ calls # <<>>
    /\ w.tries = 1
    /\ w.ffails = 1
    /\ w.log = <<MSG_DROPPED, MSG_CALL_FINISH, MSG_FOOTER>>

\* C9: when finish returned Err the failure was reported by that Err alone:
\* nothing was logged and the footer was attempted once.
C9_FinishFailureReportedOnce ==
    (wstate = "finished" /\ wres = "err") =>
       /\ w.log = <<>>
       /\ w.tries = 1

(***************************************************************************)
(* Properties of the Reader's errors.                                      *)
(***************************************************************************)
\* line i is a particle line of the event that begins at line e, and no
\* vertex line stands between them: only records that belong to the event
\* itself
ParticleBeforeVertex(e, i) ==
    /\ e >= 1
    /\ i > e
    /\ i <= Len(input)
    /\ input[e] \in GoodE
    /\ input[i] \in GoodP
    /\ \A j \in (e + 1)..(i - 1) : input[j] \in GoodMeta

\* C10: when the event a pull parses meets a P line while it has no vertex,
\* the pull returns normally and yields the NoVertex error for that line,
\* and no event.
C10_NoVertex ==
    \A i \in DOMAIN input :
       (last.kind \notin {"-", "eos"} /\ ParticleBeforeVertex(first, i)) =>
          /\ rstate = "ready"
          /\ last = SomeErr("NoVertex", input[i], i)

\* the pull of an event whose event line and units line are followed by a
\* particle line yielded the NoVertex error
C10_Witness ==
    /\ last.kind = "err"
    /\ last.err = "NoVertex"
    /\ ParticleBeforeVertex(first, last.line_nr)
    /\ last.line_nr = first + 2
    /\ last.line = input[first + 2]

\* a line of text that is not blank and whose first character is none of the
\* eight record letters
UnknownPrefix(l) ==
    /\ l # InvalidUtf8
    /\ l.toks # <<>>
    /\ l.toks[1] \notin {"E", "V", "P", "U", "F", "H", "N", "C"} \cup HepMCWords

\* the last pull read line i as a line of the body of its event
BodyLineRead(i) ==
    /\ last.kind \notin {"-", "eos"}
    /\ first < i
    /\ i <= pos

\* C11: when a pull reads, inside the body of its event, a line that is not
\* blank and whose first character is none of E, V, P, U, F, H, N, C, the
\* pull returns the BadPrefix error with that line.
C11_BadPrefix ==
    \A i \in DOMAIN input :
       (BodyLineRead(i) /\ UnknownPrefix(input[i])) =>
          /\ rstate = "ready"
          /\ last.kind = "err"
          /\ last.err = "BadPrefix"
          /\ last.line = input[i]
          /\ i = pos

\* the pull of an event met a line X after a vertex line of the event and
\* returned the BadPrefix error
C11_Witness ==
    /\ last.kind = "err"
    /\ last.err = "BadPrefix"
    /\ pos = first + 2
    /\ input[first] = L_E0
    /\ input[first + 1] = L_V1
    /\ input[pos] = L_X
    /\ UnknownPrefix(input[pos])

\* C12: over every input, every pull returns normally, with an event, an
\* error or the end of the sequence: no line makes the Reader panic or abort.
C12_NoPanic ==
    /\ rstate = "ready"
    /\ last.kind \in {"-", "ok", "err", "eos"}

\* C13: whenever a pull yields an error, the line of the error is the input
\* line the pull failed on, which is the last line it took from the stream,
\* and the line number of the error is the 1-based place of that line in the
\* input.
C13_ErrorNamesLine ==
    last.kind = "err" =>
       /\ pos >= 1
       /\ last.line = input[pos]
       /\ last.line_nr = pos

\* the lines of the inputs that are no well-formed record of any kind
Malformed == {L_EBad, L_PBad, L_X, L_HBad}

IsELine(l) == l # InvalidUtf8 /\ l.toks # <<>> /\ l.toks[1] = "E"

\* the lines first..BodyEnd are all the lines of one event of the input: an
\* E line and every line after it up to the next E line or the end
WholeEvent ==
    /\ first >= 1
    /\ IsELine(input[first])
    /\ \A i \in (first + 1)..BodyEnd : ~IsELine(input[i])
    /\ BodyEnd = Len(input) \/ IsELine(input[BodyEnd + 1])

\* C14: when a line of the event a pull parses is malformed, the pull returns
\* an error; and an event that a pull yields is built from all the lines of
\* one event of the input, none of them malformed, so that no event holding
\* records of an aborted event is ever yielded.
C14_MalformedAborts ==
    /\ \A i \in DOMAIN input :
          (last.kind \notin {"-", "eos"} /\ first <= i /\ i <= pos
              /\ (i = first \/ ~IsELine(input[i]))
              /\ input[i] \in Malformed) =>
             (rstate = "ready" /\ last.kind = "err")
    /\ last.kind = "ok" =>
          (WholeEvent /\ \A i \in first..BodyEnd : input[i] \notin Malformed)

\* a U line whose energy token or length token names no unit
BadUnits(l) ==
    /\ Len(l.toks) >= 3
    /\ l.toks[1] = "U"
    /\ l.toks[2] \notin EnergyUnit \/ l.toks[3] \notin LengthUnit

\* C15: a pull that reads a U line whose energy token is not MEV or GEV, or
\* whose length token is not MM or CM, returns a parse error, and every
\* event yielded has units of the two enumerations.
C15_UnitsValidated ==
    /\ \A i \in DOMAIN input :
          (BodyLineRead(i) /\ BadUnits(input[i])) =>
             (last.kind = "err" /\ last.err = "Parse")
    /\ \A i \in DOMAIN yielded :
          /\ yielded[i].energy_unit \in EnergyUnit
          /\ yielded[i].length_unit \in LengthUnit

(***************************************************************************)
(* The optional records of a written event.                                *)
(***************************************************************************)
\* how many of the lines ls are records of kind k
Count(ls, k) == Cardinality({j \in DOMAIN ls : ls[j].toks # <<>> /\ ls[j].toks[1] = k})

\* the lines hold exactly one U, one C and one F line, an N line exactly
\* when the event has weight names and an H line exactly when it has heavy
\* ion information
OptionalRecords(event, ls) ==
    /\ Count(ls, "N") = IF event.weight_names # <<>> THEN 1 ELSE 0
    /\ Count(ls, "H") = IF event.heavy_ion_info # <<>> THEN 1 ELSE 0
    /\ Count(ls, "U") = 1
    /\ Count(ls, "C") = 1
    /\ Count(ls, "F") = 1

\* C16: among the lines a successful write call puts on the stream there is
\* an N line if and only if the event has weight names, however many weights
\* it has, an H line if and only if it has heavy ion information, and
\* exactly one U, one C and one F line.
C16_OptionalRecords ==
    \A i \in DOMAIN calls :
       IoOk(RecordsOf[calls[i].event], calls[i].io) =>
          OptionalRecords(calls[i].event, Written(i))

\* an event with a weight, no weight name and heavy ion information was
\* written in full with an H line and no N line, and an event with two
\* weights and one weight name with an N line and no H line
C16_Witness ==
    /\ \E i \in DOMAIN calls :
          /\ calls[i].event = EvIon
          /\ calls[i].event.weights # <<>>
          /\ calls[i].event.weight_names = <<>>
          /\ IoOk(RecordsOf[EvIon], calls[i].io)
          /\ Count(Written(i), "N") = 0
          /\ Count(Written(i), "H") = 1
    /\ \E i \in DOMAIN calls :
          /\ calls[i].event = EvNamed
          /\ Len(calls[i].event.weights) > Len(calls[i].event.weight_names)
          /\ IoOk(RecordsOf[EvNamed], calls[i].io)
          /\ Count(Written(i), "N") = 1
          /\ Count(Written(i), "H") = 0

(***************************************************************************)
(* Blank lines, event lines and framing lines in the stream.               *)
(***************************************************************************)
\* C17: a blank line that a pull reads inside the body of its event neither
\* fails the pull nor ends the event: the pull goes on to the lines after
\* it, or, when the blank line is the last line of the input, yields the
\* event.
C17_BlankLineSkipped ==
    \A i \in DOMAIN input :
       (BodyLineRead(i) /\ input[i] = L_Blank) =>
          \/ pos > i
          \/ (last.kind = "ok" /\ i = Len(input))

\* the body loop of the last pull stopped at an E line, and the pull yielded
\* its event
StoppedAtEventLine ==
    /\ last.kind = "ok"
    /\ pos > first
    /\ IsELine(input[pos])

\* C18: when a pull yields an event because its body loop met an E line, that
\* line stays in the buffer and the next pull takes no line before it: the
\* next pull's event begins at that very line, right after the last line of
\* the event before, and what the next pull returns is parsed from it.
C18_EventLineKept ==
    [][StoppedAtEventLine =>
          /\ line = input[pos]
          /\ first' = pos
          /\ first' = BodyEnd + 1
          /\ last'.kind # "eos"
          /\ last'.kind = "ok" =>
                last'.event.number = IntTable[input[pos].toks[2]]
          /\ (last'.kind = "err" /\ pos' = pos) => last'.line = input[pos]]_vars

\* two events were yielded one after the other, the second from the event
\* line that ended the first, which has another number
C18_Witness ==
    /\ Len(yielded) = 2
    /\ last.kind = "ok"
    /\ first >= 2
    /\ input[first] = L_E1
    /\ input[first - 1] = L_E0
    /\ yielded[1].number = 0
    /\ yielded[2].number = 1

\* the lines after the buffer up to line k - 1 are all framing lines
FramingUpTo(k) == \A j \in (pos + 1)..(k - 1) : IsFraming(input[j])

HeavyIonOf(l) ==
    [ncoll_hard |-> IntTable[l.toks[2]], npart_proj |-> IntTable[l.toks[3]],
     npart_targ |-> IntTable[l.toks[4]], ncoll |-> IntTable[l.toks[5]],
     spectator_neutrons |-> IntTable[l.toks[6]],
     spectator_protons |-> IntTable[l.toks[7]],
     n_nwounded_collisions |-> IntTable[l.toks[8]],
     nwounded_n_collisions |-> IntTable[l.toks[9]],
     nwounded_nwounded_collisions |-> IntTable[l.toks[10]],
     impact_parameter |-> FloatTable[l.toks[11]],
     event_plane_angle |-> FloatTable[l.toks[12]],
     eccentricity |-> FloatTable[l.toks[13]],
     sigma_inel_nn |-> FloatTable[l.toks[14]]]

\* C20: a HepMC line that a pull reads inside the body of its event is
\* passed over: the pull goes on with the lines after it or, at the end of
\* the input, yields its event; a line H with thirteen fields does not stop
\* the pull either, and an event the pull yields after reading it has the
\* heavy ion information of the last such line.
C20_HeavyIonLine ==
    \A i \in DOMAIN input :
       (BodyLineRead(i) /\ (StartsWithHepMC(input[i]) \/ input[i] = L_H)) =>
          /\ rstate = "ready"
          /\ pos > i \/ (last.kind = "ok" /\ i = Len(input))
          /\ (last.kind = "ok" /\ input[i] = L_H
                 /\ \A j \in (i + 1)..BodyEnd : input[j] # L_H) =>
                last.event.heavy_ion_info = <<HeavyIonOf(L_H)>>

(***************************************************************************)
(* The F line.                                                             *)
(***************************************************************************)
\* the F lines with the seven fields and both PDF set ids or none
WellFormedF == {L_F, L_FNoIds, L_FBare}

\* the PDF set ids an F line states: the ninth and tenth tokens, 0 when absent
PdfIdsOf(l) ==
    IF Len(l.toks) >= 10 THEN <<IntTable[l.toks[9]], IntTable[l.toks[10]]>>
    ELSE <<0, 0>>

\* C21: a well-formed F line that a pull reads inside the body of its event
\* does not stop the pull, whether its two PDF set ids are there or not, and
\* an event the pull yields has the ids of its last F line as pdf_id, [0, 0]
\* when the line has none.
C21_PdfIdsOptional ==
    \A i \in DOMAIN input :
       (BodyLineRead(i) /\ input[i] \in WellFormedF) =>
          /\ pos > i \/ (last.kind = "ok" /\ i = Len(input))
          /\ (last.kind = "ok" /\ \A j \in (i + 1)..BodyEnd : input[j] \notin WellFormedF)
                => last.event.pdf_info.pdf_id = PdfIdsOf(input[i])

(***************************************************************************)
(* The first line of an event.                                             *)
(***************************************************************************)
\* C22: when the line at which a pull begins its event, the first line that
\* is neither blank nor HepMC-prefixed, does not start with E, the pull
\* reads no further line and returns a parse error with that line, and no
\* event.
C22_FirstLineMustBeE ==
    (/\ last.kind \notin {"-", "eos"}
     /\ first >= 1
     /\ input[first] # InvalidUtf8
     /\ ~IsFraming(input[first])
     /\ ~IsELine(input[first])) =>
       /\ rstate = "ready"
       /\ last.kind = "err"
       /\ last.err = "Parse"
       /\ last.line = input[first]
       /\ pos = first

\* after the footer line a pull found a vertex line where an event line
\* should be, and returned a parse error with it, with no event yielded
C22_Witness ==
    /\ Len(input) >= 3
    /\ input[1] = L_End
    /\ input[2] = L_V1
    /\ first = 2
    /\ pos = 2
    /\ last = SomeErr("Parse", L_V1, 2)
    /\ yielded = <<>>

(***************************************************************************)
(* The Writer's constructor and into_inner.                                *)
(***************************************************************************)
\* C23: when the write of the header fails in with_header, the constructor
\* returns the error and nothing more is done with the stream: no write of
\* the footer is attempted, no footer is on the stream, nothing is logged.
C23_FailedHeaderNoFooter ==
    wstate = "failed" =>
       /\ wres = "err"
       /\ w.tries = 0
       /\ FooterCount(w.stream) = 0
       /\ w.log = <<>>

\* C24: into_inner hands back the stream as the writes so far left it, with
\* no footer added, and the drop of the consumed Writer attempts no write
\* and logs nothing.
C24_IntoInnerAsIs ==
    [][(wstate = "live" /\ wstate' = "taken") =>
          /\ inner' = w.stream
          /\ FooterCount(inner') = 0
          /\ w'.stream = <<>>
          /\ w'.tries = w.tries
          /\ w'.fails = w.fails
          /\ w'.log = w.log
          /\ w'.log = <<>>]_vars

\* the stream of a Writer that wrote the default header and one event in
\* full was taken: it holds the header and the event's records, nothing was
\* logged and no write of the footer was attempted
C24_Witness ==
    /\ wstate = "taken"
    /\ hdr = DEFAULT_HEADER
    /\ Len(calls) = 1
    /\ inner = DEFAULT_HEADER \o RecordsOf[calls[1].event]
    /\ w.tries = 0
    /\ w.log = <<>>

(***************************************************************************)
(* The Reader after an error.                                              *)
(***************************************************************************)
\* C25: after a pull returned an error that is no I/O error, with a line that
\* is neither blank nor HepMC-prefixed, the next pull reads nothing: it
\* begins at the same buffered line and returns an error with the same line
\* and the same line number, and no event; so does every pull after it.
C25_ErrorRepeats ==
    [][(/\ last.kind = "err"
        /\ last.err # "Io"
        /\ ~IsFraming(last.line)
        /\ pulls' # pulls) =>
          /\ pos' = pos
          /\ line' = line
          /\ line_nr' = line_nr
          /\ first' = pos
          /\ last'.kind = "err"
          /\ last'.line = last.line
          /\ last'.line_nr = last.line_nr
          /\ yielded' = yielded]_vars

\* a particle line that came before any vertex line was tried again as an
\* event line, which gave a parse error with the same line and line number,
\* while a line of the input is still unread
C25_Witness ==
    /\ Len(input) >= 3
    /\ input[1] = L_E0
    /\ input[2] = L_P1
    /\ pulls = 0
    /\ first = 2
    /\ pos = 2
    /\ last = SomeErr("Parse", L_P1, 2)

(***************************************************************************)
(* The Writer's lines before the Reader's parsers.                         *)
(***************************************************************************)
\* the Reader's parser for the prefix of a line takes the line without error;
\* a line that is not an event line is parsed into an event with a vertex
Accepted(l) ==
    IF l.toks[1] = "E" THEN parse_event_line(l).ok
    ELSE Dispatch(l, [DefaultEvent EXCEPT !.vertices = <<VB>>]).ok

\* each count on a line is the number of items that follow it on the line
CountsFollow(l) ==
    LET t == l.toks IN
    CASE t[1] = "E" -> /\ Len(t) >= 13 + IntTable[t[12]]
                       /\ Len(t) = 13 + IntTable[t[12]]
                                      + IntTable[t[13 + IntTable[t[12]]]]
      [] t[1] = "V" -> Len(t) = 10 + IntTable[t[10]]
      [] t[1] = "P" -> Len(t) = 13 + 2 * IntTable[t[13]]
      [] t[1] = "N" -> Len(t) = 2 + IntTable[t[2]]
      [] OTHER -> TRUE

\* the record lines of the events the Writer is given that a parser of the
\* Reader does not take
RejectedLines ==
    {l \in UNION {{RecordsOf[e][j] : j \in DOMAIN RecordsOf[e]} : e \in WriterEvents} :
        ~Accepted(l)}

\* C26: every record line a write call put on the stream in full is taken
\* without error by the Reader's parser for its prefix, each count on it is
\* the number of items that follow it, and the vertex count on the E line of
\* an event written in full is the number of its V lines.
C26_WriterLinesAccepted ==
    \A i \in DOMAIN calls :
       /\ \A j \in DOMAIN Written(i) :
             Written(i)[j].cut \/
                (Written(i)[j] \notin RejectedLines /\ CountsFollow(Written(i)[j]))
       /\ IoOk(RecordsOf[calls[i].event], calls[i].io) =>
             IntTable[Written(i)[1].toks[9]] = Count(Written(i), "V")

(***************************************************************************)
(* The records of a yielded event.                                         *)
(***************************************************************************)
\* the particles of all the lists of an event
AllParticles(event) ==
    Flatten([j \in DOMAIN event.vertices |->
                event.vertices[j].particles_in \o event.vertices[j].particles_out])

\* the elements of list are those of group that are in it, in group's order
KeepsOrder(list, group) ==
    list = SelectSeq(group, LAMBDA k : \E m \in DOMAIN list : list[m] = k)

\* the event has one vertex for each V line of ls, in line order, and as many
\* particles as ls has P lines; the two lists of each vertex together hold
\* as many particles as there are P lines after its V line up to the next V
\* line, each list in line order
RecordsKept(event, ls, vs) ==
    /\ Len(event.vertices) = Count(ls, "V")
    /\ Len(AllParticles(event)) = Count(ls, "P")
    /\ Len(vs) = Len(event.vertices)
    /\ \A j \in DOMAIN event.vertices :
          /\ event.vertices[j].barcode = IntTable[ls[vs[j]].toks[2]]
          /\ Len(event.vertices[j].particles_in) + Len(event.vertices[j].particles_out)
                = Len(PKeys(GroupOf(ls, vs, j)))
          /\ KeepsOrder(Keys(event.vertices[j].particles_in), PKeys(GroupOf(ls, vs, j)))
          /\ KeepsOrder(Keys(event.vertices[j].particles_out), PKeys(GroupOf(ls, vs, j)))

\* C27: an event a pull yields has as many vertices as there are V lines
\* from its E line to the next E line or the end of the input, whatever
\* count the E line states, and as many particles as there are P lines
\* there; the vertices are in line order, and the particles after a V line
\* are all in the lists of its vertex, each list in line order.
C27_RecordsKept ==
    last.kind = "ok" => RecordsKept(last.event, EventLines, VLines(EventLines))

\* an event was yielded with two vertices, the second with one particle,
\* from an E line that states one vertex
C27_Witness ==
    /\ last.kind = "ok"
    /\ first = 1
    /\ IntTable[input[first].toks[9]] = 1
    /\ Len(last.event.vertices) = 2
    /\ Len(AllParticles(last.event)) = 1
    /\ Count(EventLines, "V") = 2
    /\ Count(EventLines, "P") = 1

====
